---- MODULE Spec2Model ----
(***************************************************************************)
(* Model of examples/ascii/mp1000-ascii.c: the MP1000 emulator front-end   *)
(* that runs in a curses terminal.  main() is one sequential process whose *)
(* position is pc; catch_sigint is the only asynchronous actor.  The       *)
(* emulated machine (mp1000_exec, mp1000_key_down, mp1000_key_up, mem_rd)  *)
(* and curses are external: the model keeps what the front-end passes to   *)
(* them and what it reads back.                                            *)
(***************************************************************************)
EXTENDS Integers, Sequences, FiniteSets, TLC

\* ------------------------------------------------------------------------
\* Bounds of the model
\* ------------------------------------------------------------------------

\* The while loop of main() is entered at most MaxFrames times.
MaxFrames == 2

\* ------------------------------------------------------------------------
\* Program constants
\* ------------------------------------------------------------------------

FRAME_USEC == 33333

\* getch() returns ERR when no key is pending (nodelay mode).
ERR == -1

\* Value of a block-scoped local of the loop body outside its lifetime
\* (int ch, line 147, is dead after line 172; int cur_color_pair, line 176).
NoValue == -2

\* The display grid walked by the render loops (lines 178-179).
GridRows == 16
GridCols == 32

\* Upper limit of the key codes handed to the machine (line 169).
KeyLimit == 256

\* Numerator and denominator of the two non-zero speed presets (lines 158-159).
NativeNum == 1900000
TurboNum == 30000000
ClockHz == 894750

\* Text-mode colour pair, 0xF0 + 1 (line 193).
TextPair == 241

\* ------------------------------------------------------------------------
\* Byte arithmetic
\* ------------------------------------------------------------------------

\* b & 128, as a truth value (lines 189, 209).
GraphicsBit(b) == (b \div 128) % 2 = 1

\* bit i of b
Bit(b, i) == (b \div (2 ^ i)) % 2

\* ------------------------------------------------------------------------
\* Lookup tables
\* ------------------------------------------------------------------------

\* font_map as character codes, indexed from 1 here (C index + 1):
\* "@ABCDEFGHIJKLMNOPQRSTUVWXYZ[x]", three spaces, then !"#$%& and a back
\* quote, then ()*+,-./0123456789:;<=>? ; the x (120) stands for the pound sign.
font_map ==
    << 64, 65, 66, 67, 68, 69, 70, 71, 72, 73, 74, 75, 76, 77, 78, 79,
       80, 81, 82, 83, 84, 85, 86, 87, 88, 89, 90, 91, 120, 93, 32, 32,
       32, 33, 34, 35, 36, 37, 38, 96, 40, 41, 42, 43, 44, 45, 46, 47,
       48, 49, 50, 51, 52, 53, 54, 55, 56, 57, 58, 59, 60, 61, 62, 63 >>

\* colors[16]: C64 colour number -> xterm-256color colour, indexed from 1.
colors == << 71, 185, 18, 88, 231, 73, 54, 136, 16, 16, 16, 16, 16, 16, 16, 16 >>

\* Glyphs are character codes: ' ' for the blank, and the code points of the
\* three block characters of the quadrant tables, U+2584 (lower half block),
\* U+2580 (upper half block) and U+2588 (full block).
SPACE == 32
LOWER == 9604
UPPER == 9600
FULL == 9608

\* unicode_map: left terminal column of a graphics cell, indexed from 1.
unicode_map ==
    << SPACE, SPACE, LOWER, LOWER, SPACE, SPACE, LOWER, LOWER,
       UPPER, UPPER, FULL, FULL, UPPER, UPPER, FULL, FULL >>

\* unicode_map2: right terminal column of a graphics cell, indexed from 1.
unicode_map2 ==
    << SPACE, LOWER, SPACE, LOWER, UPPER, FULL, UPPER, FULL,
       SPACE, LOWER, SPACE, LOWER, UPPER, FULL, UPPER, FULL >>

\* What a glyph lights in its terminal column.
UpperLit(g) == g \in {UPPER, FULL}
LowerLit(g) == g \in {LOWER, FULL}

\* ------------------------------------------------------------------------
\* Inputs from the environment
\* ------------------------------------------------------------------------

\* Results of getch() (line 147): ERR, or a host key code.  With keypad mode on,
\* curses returns characters 0..255 and function-key codes above 256.  The set
\* holds every key the switch names, letters of both cases (ASCII and 8-bit),
\* the codes at the edges of the range tests, and function keys the switch
\* does not name (263 is KEY_BACKSPACE).
HostKeys ==
    { ERR, 10, 27, 32, 33, 39, 47, 65, 90, 93, 97, 122, 127, 201, 233, 255,
      258, 259, 260, 261, 263, 287, 288, 511 }

\* LC_CTYPE as setlocale(LC_ALL, "") takes it from the environment (line 127):
\* "C" (also what a UTF-8 locale gives for single bytes) or an 8-bit locale.
\* The ctype functions below take it as a parameter; until setlocale is called
\* the process runs in the "C" locale.
Locales == { "C", "ISO-8859-1" }

\* The video memory contents the machine can show, by name: all cells 0, the
\* bytes 0..255 in order (twice), and text cells alternating with graphics cells.
Cells == 0 .. (GridRows * GridCols - 1)
Screens == { "blank", "ramp", "stripes" }

\* mem_rd(&mp1000.mem_vdg, addr) (line 186) when the video memory holds screen s
mem_rd(s, addr) ==
    CASE s = "blank" -> 0
      [] s = "ramp" -> addr % 256
      [] s = "stripes" -> IF addr % 2 = 0 THEN 0 ELSE 128

\* ------------------------------------------------------------------------
\* <ctype.h>, for arguments 0..255
\* ------------------------------------------------------------------------

Latin1Upper == (192 .. 222) \ {215}
Latin1Lower == (223 .. 255) \ {247}

islower(l, c) == \/ c \in 97 .. 122
                 \/ l = "ISO-8859-1" /\ c \in Latin1Lower

isupper(l, c) == \/ c \in 65 .. 90
                 \/ l = "ISO-8859-1" /\ c \in Latin1Upper

\* 223 (sharp s) and 255 (y with diaeresis) have no capital in ISO-8859-1.
toupper(l, c) == IF c \in 97 .. 122 THEN c - 32
                 ELSE IF l = "ISO-8859-1" /\ c \in (224 .. 254) \ {247} THEN c - 32
                 ELSE c

tolower(l, c) == IF c \in 65 .. 90 THEN c + 32
                 ELSE IF l = "ISO-8859-1" /\ c \in Latin1Upper THEN c + 32
                 ELSE c

\* ------------------------------------------------------------------------
\* Key translation (lines 149-168)
\* ------------------------------------------------------------------------

\* KeyTable with the codes of UP and DOWN exchanged.
KeyTable_UpDownSwapped(c) ==
    CASE c = 10 -> 13
      [] c = 127 -> 1
      [] c = 27 -> 3
      [] c = 260 -> 8
      [] c = 261 -> 9
      [] c = 259 -> 10
      [] c = 258 -> 11
      [] OTHER -> c

\* The assignments to ch of the switch (lines 150-156).
KeyTable(c) ==
    CASE c = 10 -> 13
      [] c = 127 -> 1
      [] c = 27 -> 3
      [] c = 260 -> 8
      [] c = 261 -> 9
      [] c = 259 -> 11
      [] c = 258 -> 10
      [] OTHER -> c

\* SpeedKey with the break statements missing: each case falls into the next.
SpeedKey_FallsThrough(c, s) ==
    CASE c = 93 -> TurboNum \div ClockHz
      [] c = 39 -> TurboNum \div ClockHz
      [] c = 47 -> TurboNum \div ClockHz
      [] OTHER -> s

\* SpeedKey with the quotients rounded to the nearest integer.
SpeedKey_RoundsToNearest(c, s) ==
    CASE c = 93 -> 0
      [] c = 39 -> (2 * NativeNum + ClockHz) \div (2 * ClockHz)
      [] c = 47 -> (2 * TurboNum + ClockHz) \div (2 * ClockHz)
      [] OTHER -> s

\* The assignments to speed of the switch (lines 157-159); the float quotient
\* is converted to int, which truncates.
SpeedKey(c, s) ==
    CASE c = 93 -> 0
      [] c = 39 -> NativeNum \div ClockHz
      [] c = 47 -> TurboNum \div ClockHz
      [] OTHER -> s

\* CaseInvert without the else branch: lower case is raised, upper case is kept.
CaseInvert_UpperOnly(l, c) ==
    IF c > 32
    THEN IF islower(l, c) THEN toupper(l, c) ELSE c
    ELSE c

\* The case inversion (lines 161-168) of a code the ctype functions are
\* defined for.
CaseInvert(l, c) ==
    IF c > 32
    THEN IF islower(l, c) THEN toupper(l, c)
         ELSE IF isupper(l, c) THEN tolower(l, c)
         ELSE c
    ELSE c

\* What lines 161-168 can leave in ch.  A code above 255 that the switch did
\* not map reaches islower() outside the domain of the ctype functions, which
\* is undefined: a libc that range-checks leaves the code alone, one that
\* indexes its class table out of bounds may take either branch and apply the
\* letter offset.
CaseOutcomes(l, c) ==
    IF c \in 0 .. 255 THEN { CaseInvert(l, c) }
    ELSE { c, c - 32, c + 32 }

\* ------------------------------------------------------------------------
\* State
\* ------------------------------------------------------------------------

VARIABLES
    pc,               \* position of main()
    quit_requested,   \* static int quit_requested (line 34)
    handler,          \* disposition of SIGINT: "default" or "catch_sigint"
    speed,            \* int speed (line 137)
    frames,           \* int frames (line 138)
    ch,               \* int ch (line 147)
    host_key,         \* what getch() returned for ch, while ch is live
    cur_color_pair,   \* int cur_color_pair (line 176)
    yy,               \* row counter of the render loop (line 178)
    vdg,              \* machine: the screen its video memory (mem_vdg) holds
    usec,             \* machine: emulated microseconds executed so far
    keys,             \* machine: key codes currently held down
    term,             \* terminal: "shell", "curses" (after initscr) or "restored"
    pairs,            \* curses: colour pair table, pair number -> <<fg, bg>>
    locale,           \* C library: LC_CTYPE of the process
    pair_calls,       \* curses: pair numbers passed to init_pair, in call order
    attr_pair,        \* curses: colour pair of the window's current attributes
    surface,          \* curses: per cell <<left glyph, right glyph, colour pair>>
    overlay_frames,   \* curses: frame count shown by the debug overlay
    log,              \* calls made in the current iteration, in order
    exec_usec,        \* argument of the last mp1000_exec call
    cells,            \* cells drawn in the current frame
    attrons,          \* cells of the current frame at which attron was called
    nexec,            \* mp1000_exec calls so far
    held,             \* mp1000_key_down calls so far minus mp1000_key_up calls
    nendwin,          \* endwin calls so far
    sleep_usec,       \* argument of the last usleep call
    execs_after_quit, \* mp1000_exec calls made with quit_requested set
    exit_code         \* value main() returned

vars ==
    << pc, quit_requested, handler, speed, frames, ch, host_key,
       cur_color_pair, yy, vdg, usec, keys, term, pairs, locale, pair_calls,
       attr_pair, surface, overlay_frames,
       log, exec_usec, cells, attrons, nexec, held, nendwin, sleep_usec,
       execs_after_quit, exit_code >>

machine == << vdg, usec, keys >>
curses == << term, pairs, locale, pair_calls, attr_pair, surface, overlay_frames >>
locals == << speed, frames, ch, host_key, cur_color_pair, yy >>
counts == << exec_usec, cells, attrons, nexec, held, nendwin, sleep_usec,
            execs_after_quit, exit_code >>

\* A cell of the window nothing was drawn on.
EmptyCell == << SPACE, SPACE, 0 >>

Init ==
    /\ pc = "mp1000_init"
    /\ quit_requested = 0
    /\ handler = "default"
    /\ speed = NoValue
    /\ frames = NoValue
    /\ ch = NoValue
    /\ host_key = NoValue
    /\ cur_color_pair = NoValue
    /\ yy = NoValue
    /\ vdg = "blank"
    /\ usec = 0
    /\ keys = {}
    /\ term = "shell"
    /\ pairs = << >>
    /\ locale = "C"
    /\ pair_calls = << >>
    /\ attr_pair = 0
    /\ surface = [a \in Cells |-> EmptyCell]
    /\ overlay_frames = NoValue
    /\ log = << >>
    /\ exec_usec = NoValue
    /\ cells = 0
    /\ attrons = {}
    /\ nexec = 0
    /\ held = 0
    /\ nendwin = 0
    /\ sleep_usec = NoValue
    /\ execs_after_quit = 0
    /\ exit_code = NoValue

\* ------------------------------------------------------------------------
\* The interrupt handler
\* ------------------------------------------------------------------------

\* catch_sigint restoring the terminal itself instead of leaving it to main().
catch_sigint_RestoresTerminal ==
    /\ handler = "catch_sigint"
    /\ pc # "done"
    /\ quit_requested' = 1
    /\ term' = "restored"
    /\ UNCHANGED << pc, handler, locals, machine, pairs, locale, pair_calls,
                    attr_pair, surface, overlay_frames, log, counts >>

\* catch_sigint (lines 35-38): runs between any two steps of main() once
\* signal() has installed it, until the process has exited.
catch_sigint ==
    /\ handler = "catch_sigint"
    /\ pc # "done"
    /\ quit_requested' = 1
    /\ UNCHANGED << pc, handler, locals, machine, curses, log, counts >>

\* ------------------------------------------------------------------------
\* main(): start-up (lines 114-138)
\* ------------------------------------------------------------------------

\* mp1000_init (lines 114-121): the machine comes up showing some screen.
MachineInit ==
    /\ pc = "mp1000_init"
    /\ pc' = "signal"
    /\ vdg' \in Screens
    /\ usec' = 0
    /\ keys' = {}
    /\ UNCHANGED << quit_requested, handler, locals, curses, log, counts >>

\* signal(SIGINT, catch_sigint) (line 124)
InstallHandler ==
    /\ pc = "signal"
    /\ pc' = "curses"
    /\ handler' = "catch_sigint"
    /\ UNCHANGED << quit_requested, locals, machine, curses, log, counts >>

\* PairId without the + 1: pair numbers from 0.
PairId_FromZero(fg, bg) == fg * 16 + bg

\* The number of the colour pair of foreground fg on background bg (line 106).
PairId(fg, bg) == (fg * 16 + bg) + 1

\* The inner loop of init_mp1000_colors for one fg, from bg on (lines
\* 105-108): the pairs it registers, a later init_pair replacing an earlier one.
RECURSIVE InitPairs(_, _)
InitPairs(fg, bg) ==
    IF bg = 16 THEN << >>
    ELSE LET cp == PairId(fg, bg)
         IN  InitPairs(fg, bg + 1) @@ (cp :> << colors[fg + 1], colors[bg + 1] >>)

\* init_mp1000_colors, from fg on (lines 102-110)
RECURSIVE init_mp1000_colors(_)
init_mp1000_colors(fg) ==
    IF fg = 16 THEN << >> ELSE init_mp1000_colors(fg + 1) @@ InitPairs(fg, 0)

\* The pair numbers init_mp1000_colors passes to init_pair, in call order: the
\* inner loop for one fg from bg on, and the outer loop from fg on.
RECURSIVE InitPairCalls(_, _)
InitPairCalls(fg, bg) ==
    IF bg = 16 THEN << >> ELSE << PairId(fg, bg) >> \o InitPairCalls(fg, bg + 1)

RECURSIVE init_pair_calls(_)
init_pair_calls(fg) ==
    IF fg = 16 THEN << >> ELSE InitPairCalls(fg, 0) \o init_pair_calls(fg + 1)

\* setlocale, initscr, init_mp1000_colors, the mode calls, and the
\* initialisation of speed and frames (lines 127-138).
SetupCurses ==
    /\ pc = "curses"
    /\ pc' = "loop"
    /\ term' = "curses"
    /\ locale' \in Locales
    /\ pairs' = init_mp1000_colors(0)
    /\ pair_calls' = init_pair_calls(0)
    /\ speed' = FRAME_USEC
    /\ frames' = 0
    /\ UNCHANGED << quit_requested, handler, ch, host_key, cur_color_pair, yy, machine,
                    attr_pair, surface, overlay_frames, log, counts >>

\* ------------------------------------------------------------------------
\* main(): the emulation/input/render loop (lines 141-269)
\* ------------------------------------------------------------------------

\* LoopEnter with the loop test ignoring the flag.
LoopEnter_IgnoresFlag ==
    /\ pc = "loop"
    /\ frames < MaxFrames
    /\ pc' = "exec"
    /\ log' = << >>
    /\ cells' = 0
    /\ attrons' = {}
    /\ UNCHANGED << quit_requested, handler, locals, machine, curses,
                    exec_usec, nexec, held, nendwin, sleep_usec, execs_after_quit,
                    exit_code >>

\* while (!quit_requested), flag clear (line 141): a new iteration begins.
LoopEnter ==
    /\ pc = "loop"
    /\ quit_requested = 0
    /\ frames < MaxFrames
    /\ pc' = "exec"
    /\ log' = << >>
    /\ cells' = 0
    /\ attrons' = {}
    /\ UNCHANGED << quit_requested, handler, locals, machine, curses,
                    exec_usec, nexec, held, nendwin, sleep_usec, execs_after_quit,
                    exit_code >>

\* while (!quit_requested), flag set (line 141): the loop is left.
LoopExit ==
    /\ pc = "loop"
    /\ quit_requested # 0
    /\ pc' = "endwin"
    /\ UNCHANGED << quit_requested, handler, locals, machine, curses, log, counts >>

\* Exec with a paused frame skipped: with speed 0 the loop continues at once.
Exec_SkipsWhenPaused ==
    /\ pc = "exec"
    /\ IF speed = 0
       THEN /\ pc' = "loop"
            /\ UNCHANGED << usec, vdg, frames, exec_usec, nexec, execs_after_quit, log >>
       ELSE /\ pc' = "getch"
            /\ usec' = usec + speed
            /\ vdg' \in Screens
            /\ frames' = frames + 1
            /\ exec_usec' = speed
            /\ nexec' = nexec + 1
            /\ execs_after_quit' =
                  execs_after_quit + (IF quit_requested # 0 THEN 1 ELSE 0)
            /\ log' = Append(log, "exec")
    /\ UNCHANGED << quit_requested, handler, speed, ch, host_key, cur_color_pair, yy,
                    keys, curses, cells, attrons, held, nendwin, sleep_usec, exit_code >>

\* Exec counting only the frames in which the machine ran.
Exec_CountsRunningFrames ==
    /\ pc = "exec"
    /\ pc' = "getch"
    /\ usec' = usec + speed
    /\ vdg' \in (IF speed = 0 THEN {vdg} ELSE Screens)
    /\ frames' = (IF speed = 0 THEN frames ELSE frames + 1)
    /\ exec_usec' = speed
    /\ nexec' = nexec + 1
    /\ execs_after_quit' = execs_after_quit + (IF quit_requested # 0 THEN 1 ELSE 0)
    /\ log' = Append(log, "exec")
    /\ UNCHANGED << quit_requested, handler, speed, ch, host_key, cur_color_pair, yy,
                    keys, curses, cells, attrons, held, nendwin, sleep_usec, exit_code >>

\* mp1000_exec(&mp1000, speed); frames++ (lines 143-144).  The machine runs
\* speed microseconds: with 0 it does not run, otherwise it may show any screen.
Exec ==
    /\ pc = "exec"
    /\ pc' = "getch"
    /\ usec' = usec + speed
    /\ vdg' \in (IF speed = 0 THEN {vdg} ELSE Screens)
    /\ frames' = frames + 1
    /\ exec_usec' = speed
    /\ nexec' = nexec + 1
    /\ execs_after_quit' = execs_after_quit + (IF quit_requested # 0 THEN 1 ELSE 0)
    /\ log' = Append(log, "exec")
    /\ UNCHANGED << quit_requested, handler, speed, ch, host_key, cur_color_pair, yy,
                    keys, curses, cells, attrons, held, nendwin, sleep_usec, exit_code >>

\* int ch = getch(); if (ch != ERR) (lines 147-148)
GetCh ==
    /\ pc = "getch"
    /\ \E k \in HostKeys :
          /\ ch' = (IF k = ERR THEN NoValue ELSE k)   \* not read again when ERR
          /\ host_key' = ch'
          /\ pc' = (IF k = ERR THEN "render" ELSE "translate")
    /\ log' = Append(log, "getch")
    /\ UNCHANGED << quit_requested, handler, speed, frames, cur_color_pair, yy,
                    machine, curses, counts >>

\* Translate with the speed keys consumed by the speed change: nothing is
\* injected for them.
Translate_ConsumesSpeedKey ==
    /\ pc = "translate"
    /\ speed' = SpeedKey(ch, speed)
    /\ IF ch \in {93, 39, 47}
       THEN pc' = "render" /\ ch' = NoValue /\ host_key' = NoValue
       ELSE /\ pc' = "key_down"
            /\ ch' \in CaseOutcomes(locale, KeyTable(ch))
            /\ host_key' = host_key
    /\ UNCHANGED << quit_requested, handler, frames, cur_color_pair, yy,
                    machine, curses, log, counts >>

\* The switch and the case inversion (lines 149-168).
Translate ==
    /\ pc = "translate"
    /\ pc' = "key_down"
    /\ speed' = SpeedKey(ch, speed)
    /\ ch' \in CaseOutcomes(locale, KeyTable(ch))
    /\ UNCHANGED << quit_requested, handler, frames, host_key, cur_color_pair, yy,
                    machine, curses, log, counts >>

\* KeyDown with the range test left out.
KeyDown_NoRangeTest ==
    /\ pc = "key_down"
    /\ pc' = "key_up"
    /\ keys' = keys \cup {ch}
    /\ held' = held + 1
    /\ log' = Append(log, "key_down")
    /\ UNCHANGED << ch, host_key >>
    /\ UNCHANGED << quit_requested, handler, speed, frames, cur_color_pair, yy,
                    vdg, usec, curses, exec_usec, cells, attrons, nexec, nendwin, sleep_usec,
                    execs_after_quit, exit_code >>

\* KeyDown with the range test on the code getch() returned.
KeyDown_TestsHostCode ==
    /\ pc = "key_down"
    /\ IF host_key < KeyLimit
       THEN /\ pc' = "key_up"
            /\ keys' = keys \cup {ch}
            /\ held' = held + 1
            /\ log' = Append(log, "key_down")
            /\ UNCHANGED << ch, host_key >>
       ELSE /\ pc' = "render"
            /\ UNCHANGED << keys, held, log >>
            /\ ch' = NoValue
            /\ host_key' = NoValue
    /\ UNCHANGED << quit_requested, handler, speed, frames, cur_color_pair, yy,
                    vdg, usec, curses, exec_usec, cells, attrons, nexec, nendwin, sleep_usec,
                    execs_after_quit, exit_code >>

\* if (ch < 256) mp1000_key_down(&mp1000, ch) (lines 169-170)
KeyDown ==
    /\ pc = "key_down"
    /\ IF ch < KeyLimit
       THEN /\ pc' = "key_up"
            /\ keys' = keys \cup {ch}
            /\ held' = held + 1
            /\ log' = Append(log, "key_down")
            /\ UNCHANGED << ch, host_key >>
       ELSE /\ pc' = "render"
            /\ UNCHANGED << keys, held, log >>
            /\ ch' = NoValue
            /\ host_key' = NoValue
    /\ UNCHANGED << quit_requested, handler, speed, frames, cur_color_pair, yy,
                    vdg, usec, curses, exec_usec, cells, attrons, nexec, nendwin, sleep_usec,
                    execs_after_quit, exit_code >>

\* KeyUp releasing the code getch() returned instead of the translated one.
KeyUp_HostCode ==
    /\ pc = "key_up"
    /\ pc' = "render"
    /\ keys' = keys \ {host_key}
    /\ held' = held - 1
    /\ log' = Append(log, "key_up")
    /\ ch' = NoValue
    /\ host_key' = NoValue
    /\ UNCHANGED << quit_requested, handler, speed, frames, cur_color_pair, yy,
                    vdg, usec, curses, exec_usec, cells, attrons, nexec, nendwin, sleep_usec,
                    execs_after_quit, exit_code >>

\* mp1000_key_up(&mp1000, ch) (line 171)
KeyUp ==
    /\ pc = "key_up"
    /\ pc' = "render"
    /\ keys' = keys \ {ch}
    /\ held' = held - 1
    /\ log' = Append(log, "key_up")
    /\ ch' = NoValue
    /\ host_key' = NoValue
    /\ UNCHANGED << quit_requested, handler, speed, frames, cur_color_pair, yy,
                    vdg, usec, curses, exec_usec, cells, attrons, nexec, nendwin, sleep_usec,
                    execs_after_quit, exit_code >>

\* ------------------------------------------------------------------------
\* Rendering (lines 176-264)
\* ------------------------------------------------------------------------

\* ColorPair with the text pair taken as black on black, pair 256.
ColorPair_TextOnBlack(font_code) ==
    IF GraphicsBit(font_code)
    THEN LET fg == (font_code \div 16) % 8 IN 16 * fg + 15 + 1
    ELSE 256

\* ColorPair with all four bits of the high nibble taken as the foreground.
ColorPair_FourBitForeground(font_code) ==
    IF GraphicsBit(font_code)
    THEN LET fg == (font_code \div 16) % 16 IN 16 * fg + 15 + 1
    ELSE TextPair

\* color_pair of a cell byte (lines 188-194)
ColorPair(font_code) ==
    IF GraphicsBit(font_code)
    THEN LET fg == (font_code \div 16) % 8 IN 16 * fg + 15 + 1
    ELSE TextPair

\* LeftGlyph reading the table of the right column.
LeftGlyph_RightTable(font_code) ==
    IF GraphicsBit(font_code) THEN unicode_map2[(font_code % 16) + 1] ELSE SPACE

\* The two glyphs drawn for a cell byte (lines 187, 209-215).
LeftGlyph(font_code) ==
    IF GraphicsBit(font_code) THEN unicode_map[(font_code % 16) + 1] ELSE SPACE

RightGlyph(font_code) ==
    IF GraphicsBit(font_code) THEN unicode_map2[(font_code % 16) + 1]
    ELSE font_map[(font_code % 64) + 1]

\* Whether the cell's colour pair has to be switched to (line 198).
NeedsAttron(color_pair, cur) == color_pair # cur

\* The body of the inner loop for cell (y, x) (lines 181-215).  r is the state
\* the body works on: cur (cur_color_pair), win (the window's colour pair),
\* row (the cells of row y drawn so far, each <<left, right, pair>>) and att
\* (the cells of row y at which attron was called).
RenderCell(mem, y, x, r) ==
    LET addr == y * GridCols + x
        font_code == mem_rd(mem, addr)
        color_pair == ColorPair(font_code)
        switch == NeedsAttron(color_pair, r.cur)
        win == IF switch THEN color_pair ELSE r.win
    IN  [ cur |-> IF switch THEN color_pair ELSE r.cur,
          win |-> win,
          row |-> Append(r.row, << LeftGlyph(font_code), RightGlyph(font_code), win >>),
          att |-> IF switch THEN r.att \cup {addr} ELSE r.att ]

\* for (xx = 0; xx < 32; xx++) from column x on (line 179)
RECURSIVE RenderRow(_, _, _, _)
RenderRow(mem, y, x, r) ==
    IF x = GridCols THEN r
    ELSE LET r1 == RenderCell(mem, y, x, r)
         IN  IF Len(r1.row) > x THEN RenderRow(mem, y, x + 1, r1) ELSE r

\* RenderBegin with cur_color_pair keeping the pair of the previous frame (as
\* if it were declared outside the loop).
RenderBegin_KeepsColor ==
    /\ pc = "render"
    /\ pc' = "row"
    /\ cur_color_pair' = (IF attr_pair = 0 THEN -1 ELSE attr_pair)
    /\ yy' = 0
    /\ log' = Append(log, "render")
    /\ UNCHANGED << quit_requested, handler, speed, frames, ch, host_key, machine,
                    curses, counts >>

\* int cur_color_pair = -1 and the start of the row loop (lines 176-178)
RenderBegin ==
    /\ pc = "render"
    /\ pc' = "row"
    /\ cur_color_pair' = -1
    /\ yy' = 0
    /\ log' = Append(log, "render")
    /\ UNCHANGED << quit_requested, handler, speed, frames, ch, host_key, machine,
                    curses, counts >>

\* The window with the cells of row drawn from cell base on.
DrawRow(scr, base, row) ==
    [a \in Cells |->
        IF a \in base .. (base + Len(row) - 1) THEN row[a - base + 1] ELSE scr[a]]

\* What one pass of the row loop leaves, r being the result of its inner loop.
RowDone(r) ==
    /\ cur_color_pair' = r.cur
    /\ attr_pair' = r.win
    /\ surface' = DrawRow(surface, yy * GridCols, r.row)
    /\ attrons' = attrons \cup r.att
    /\ cells' = cells + Len(r.row)

\* RenderLine with a refresh() at the end of every row.
RenderLine_Flushes ==
    /\ pc = "row"
    /\ yy < GridRows
    /\ RowDone(RenderRow(vdg, yy, 0,
                   [ cur |-> cur_color_pair, win |-> attr_pair, row |-> << >>,
                     att |-> {} ]))
    /\ yy' = yy + 1
    /\ pc' = "row"
    /\ log' = Append(log, "refresh")
    /\ UNCHANGED << quit_requested, handler, speed, frames, ch, host_key, machine,
                    term, pairs, locale, pair_calls, overlay_frames, exec_usec, nexec, held,
                    nendwin, sleep_usec, execs_after_quit, exit_code >>

\* One pass of the row loop (lines 178-222): the 32 cells of row yy.
RenderLine ==
    /\ pc = "row"
    /\ yy < GridRows
    /\ RowDone(RenderRow(vdg, yy, 0,
                   [ cur |-> cur_color_pair, win |-> attr_pair, row |-> << >>,
                     att |-> {} ]))
    /\ yy' = yy + 1
    /\ pc' = "row"
    /\ UNCHANGED << quit_requested, handler, speed, frames, ch, host_key, machine,
                    term, pairs, locale, pair_calls, overlay_frames, log, exec_usec, nexec, held,
                    nendwin, sleep_usec, execs_after_quit, exit_code >>

\* The debug overlay (lines 224-262): the registers and memory window of the
\* machine are formatted and drawn beside the grid; of these the model keeps
\* the frame count of line 244.
Overlay ==
    /\ pc = "row"
    /\ yy = GridRows
    /\ pc' = "refresh"
    /\ overlay_frames' = frames
    /\ yy' = NoValue
    /\ cur_color_pair' = NoValue
    /\ log' = Append(log, "overlay")
    /\ UNCHANGED << quit_requested, handler, speed, frames, ch, host_key, machine,
                    term, pairs, locale, pair_calls, attr_pair, surface, counts >>

\* refresh() (line 264)
Refresh ==
    /\ pc = "refresh"
    /\ pc' = "usleep"
    /\ log' = Append(log, "refresh")
    /\ UNCHANGED << quit_requested, handler, locals, machine, curses, counts >>

\* Usleep sleeping the current frame budget instead of the fixed interval.
Usleep_SleepsBudget ==
    /\ pc = "usleep"
    /\ pc' = "loop"
    /\ sleep_usec' = speed
    /\ log' = Append(log, "usleep")
    /\ UNCHANGED << quit_requested, handler, locals, machine, curses, exec_usec,
                    cells, attrons, nexec, held, nendwin, execs_after_quit,
                    exit_code >>

\* usleep(FRAME_USEC) (line 268), then back to the loop test
Usleep ==
    /\ pc = "usleep"
    /\ pc' = "loop"
    /\ sleep_usec' = FRAME_USEC
    /\ log' = Append(log, "usleep")
    /\ UNCHANGED << quit_requested, handler, locals, machine, curses, exec_usec,
                    cells, attrons, nexec, held, nendwin, execs_after_quit,
                    exit_code >>

\* ------------------------------------------------------------------------
\* main(): shutdown (lines 270-271)
\* ------------------------------------------------------------------------

\* endwin() (line 270)
Endwin ==
    /\ pc = "endwin"
    /\ pc' = "return"
    /\ term' = "restored"
    /\ nendwin' = nendwin + 1
    /\ UNCHANGED << quit_requested, handler, locals, machine, pairs, locale, pair_calls,
                    attr_pair,
                    surface, overlay_frames, log, exec_usec, cells, attrons, nexec,
                    held, sleep_usec, execs_after_quit, exit_code >>

\* Return with a failure status.
Return_Failure ==
    /\ pc = "return"
    /\ pc' = "done"
    /\ exit_code' = 1
    /\ UNCHANGED << quit_requested, handler, locals, machine, curses, log,
                    exec_usec, cells, attrons, nexec, held, nendwin, sleep_usec,
                    execs_after_quit >>

\* return 0 (line 271)
Return ==
    /\ pc = "return"
    /\ pc' = "done"
    /\ exit_code' = 0
    /\ UNCHANGED << quit_requested, handler, locals, machine, curses, log,
                    exec_usec, cells, attrons, nexec, held, nendwin, sleep_usec,
                    execs_after_quit >>

\* ------------------------------------------------------------------------
\* Specification
\* ------------------------------------------------------------------------

Next ==
    \/ catch_sigint
    \/ MachineInit
    \/ InstallHandler
    \/ SetupCurses
    \/ LoopEnter
    \/ LoopExit
    \/ Exec
    \/ GetCh
    \/ Translate
    \/ KeyDown
    \/ KeyUp
    \/ RenderBegin
    \/ RenderLine
    \/ Overlay
    \/ Refresh
    \/ Usleep
    \/ Endwin
    \/ Return

Spec == Init /\ [][Next]_vars

\* The steps of main() other than a pass of the row loop.
MainStep ==
    \/ MachineInit
    \/ InstallHandler
    \/ SetupCurses
    \/ LoopEnter
    \/ LoopExit
    \/ Exec
    \/ GetCh
    \/ Translate
    \/ KeyDown
    \/ KeyUp
    \/ RenderBegin
    \/ Overlay
    \/ Refresh
    \/ Usleep
    \/ Endwin
    \/ Return

\* A pass of the row loop, by its effect on the position of main(): the steps
\* of Spec that satisfy RowStep are the RenderLine steps, and RowStep is
\* enabled exactly when RenderLine is.
RowStep == pc = "row" /\ yy < GridRows /\ pc' = "row" /\ yy' = yy + 1

\* Every call main() makes returns (mp1000_exec runs a bounded number of
\* ticks, getch is in nodelay mode, the render loops are bounded, usleep is
\* bounded), so main() keeps taking steps as long as it has one to take.
\* Nothing is assumed about the interrupt.
FairSpec == Spec /\ WF_vars(MainStep) /\ WF_<<pc, yy>>(RowStep)

\* ------------------------------------------------------------------------
\* Properties
\* ------------------------------------------------------------------------

\* The positions of main() inside the loop body.
InIteration ==
    pc \in { "exec", "getch", "translate", "key_down", "key_up", "render", "row",
             "refresh", "usleep" }

\* C1: once quit_requested is set, mp1000_exec is called at most once more
\* (the iteration in progress, or the one whose loop test was already passed,
\* is the last); with the flag set the loop test leads to endwin and nowhere
\* else; endwin is called exactly once, after the loop and before main returns.
C1_ShutdownAfterOneIteration ==
    /\ [](/\ execs_after_quit <= 1
          /\ nendwin <= 1
          /\ (nendwin = 1) = (pc \in {"return", "done"})
          /\ (nendwin = 1) = (term = "restored")
          /\ (pc \in {"endwin", "return", "done"} => quit_requested # 0))
    /\ [][(pc = "loop" /\ quit_requested # 0 /\ pc' # pc) => pc' = "endwin"]_vars

\* C1 witness: the flag was set, one more iteration ran, and main has returned
\* with the terminal restored once.
C1_Witness ==
    pc = "done" /\ execs_after_quit = 1 /\ nendwin = 1 /\ term = "restored"

\* C2 as stated: a key event for a host code of 256 or more never happens
\* (key_down has been called exactly when pc is "key_up").
C2_Original_NoKeyEventFrom256Up ==
    pc = "key_up" => host_key < 256

\* C2 amended: a host code of 256 or more leads to key_down/key_up only with a
\* translated code below 256, as the arrow keys 258..261 always do (0x0A, 0x0B,
\* 0x08, 0x09); when the translated code is 256 or more the key is dropped:
\* no key event, and the machine's key state is unchanged.
C2_DroppedWhenTranslatedCodeIs256Up ==
    /\ []((pc = "key_up" /\ host_key >= 256) => (ch \in 0 .. 255 /\ keys = {ch}))
    /\ []((pc = "key_down" /\ host_key \in 258 .. 261) => ch \in {8, 9, 10, 11})
    /\ [][(pc = "key_down" /\ ch >= 256 /\ pc' # pc) =>
             (pc' = "render" /\ keys' = keys /\ held' = held /\ log' = log)]_vars

\* C2 witness: a function key (KEY_BACKSPACE, 263) is about to be dropped.
C2_Witness ==
    pc = "key_down" /\ host_key = 263 /\ ch = 263 /\ keys = {}

\* The fixed table of C3, host code -> machine code.
C3_Table ==
    { <<10, 13>>, <<127, 1>>, <<27, 3>>, <<260, 8>>, <<261, 9>>, <<259, 11>>,
      <<258, 10>> }

\* C3: a table key reaches the injection with its mapped code, untouched by
\* the case inversion and accepted by the range test, and that code is the one
\* pressed in the machine.
C3_TableKeysInjectedAsMapped ==
    \A e \in C3_Table :
        host_key = e[1] =>
            /\ pc \in {"key_down", "key_up"} => (ch = e[2] /\ ch < KeyLimit)
            /\ pc = "key_up" => keys = {e[2]}

\* C3 witness: LEFT (260) is pressed in the machine as 0x08.
C3_Witness ==
    pc = "key_up" /\ host_key = 260 /\ keys = {8}

\* In log, every "key_down" is directly followed by "key_up", except a last
\* one while main() stands between the two calls.
C4_PressThenRelease ==
    \A i \in 1 .. Len(log) :
        log[i] = "key_down" =>
            IF i = Len(log) THEN pc = "key_up" ELSE log[i + 1] = "key_up"

\* C4: key_down(c) is directly followed by key_up(c): between the two calls
\* exactly c is held and one press is open; everywhere else, in particular at
\* every mp1000_exec call and at the loop test, no key is held and the presses
\* and releases are equal in number.
C4_PressImmediatelyReleased ==
    /\ C4_PressThenRelease
    /\ pc = "key_up" => (keys = {ch} /\ held = 1 /\ log[Len(log)] = "key_down")
    /\ pc # "key_up" => (keys = {} /\ held = 0)

\* C4 witness: a key was pressed and released, and the frame is being drawn.
C4_Witness ==
    pc = "row" /\ Len(log) = 5 /\ log[3] = "key_down" /\ log[4] = "key_up"
    /\ keys = {} /\ held = 0

\* The cells of the current frame drawn so far; until the next mp1000_exec
\* the video memory is the one they were drawn from.
DrawnCells == 0 .. (cells - 1)

\* The cell byte at address a.
CellByte(a) == mem_rd(vdg, a)

\* C5 as stated: text cells are drawn under id(15,15).
C5_Original_TextUnderPair15_15 ==
    \A a \in DrawnCells :
        ~GraphicsBit(CellByte(a)) =>
            surface[a] = << SPACE, font_map[(CellByte(a) % 64) + 1], PairId(15, 15) >>

\* C5 amended: every text cell (bit 7 clear) is drawn as ' ' and
\* font_map[byte & 0x3F] under pair 0xF0 + 1 = 241 = id(15,0); byte 0 gives
\* (' ', '@'), index 28 gives the placeholder 'x', and a blank screen is 512
\* cells of (' ', '@') under pair 241.
C5_TextCellsUnderPair15_0 ==
    /\ \A a \in DrawnCells :
          ~GraphicsBit(CellByte(a)) =>
              /\ surface[a] = << SPACE, font_map[(CellByte(a) % 64) + 1], PairId(15, 0) >>
              /\ surface[a][3] = 241
              /\ CellByte(a) % 64 = 0 => surface[a][2] = 64
              /\ CellByte(a) % 64 = 28 => surface[a][2] = 120
    /\ (vdg = "blank" /\ pc = "refresh") =>
          /\ cells = 512
          /\ \A a \in Cells : surface[a] = << 32, 64, 241 >>

\* C5 witness: a blank screen has been drawn in full, and so has one with the
\* placeholder at cell 28.
C5_Witness ==
    /\ pc = "refresh"
    /\ cells = 512
    /\ \/ vdg = "blank" /\ surface[511] = << 32, 64, 241 >>
       \/ vdg = "ramp" /\ surface[28] = << 32, 120, 241 >>

\* The quadrant pattern of a graphics cell byte.
Pattern(b) == b % 16

\* C6: the two glyphs of a graphics cell light exactly the quadrants of its
\* pattern: left upper = bit 3, left lower = bit 1, right upper = bit 2, right
\* lower = bit 0; so different patterns give different glyph pairs, pattern 0
\* two blanks and pattern 15 two full blocks.
C6_GlyphPairsRenderQuadrants ==
    /\ \A a \in DrawnCells :
          GraphicsBit(CellByte(a)) =>
              LET p == Pattern(CellByte(a))
                  l == surface[a][1]
                  r == surface[a][2]
              IN  /\ UpperLit(l) = (Bit(p, 3) = 1)
                  /\ LowerLit(l) = (Bit(p, 1) = 1)
                  /\ UpperLit(r) = (Bit(p, 2) = 1)
                  /\ LowerLit(r) = (Bit(p, 0) = 1)
                  /\ l \in {SPACE, LOWER, UPPER, FULL}
                  /\ r \in {SPACE, LOWER, UPPER, FULL}
                  /\ p = 0 => (l = SPACE /\ r = SPACE)
                  /\ p = 15 => (l = FULL /\ r = FULL)
    /\ LET drawn == { << Pattern(CellByte(a)), surface[a][1], surface[a][2] >> :
                         a \in { c \in DrawnCells : GraphicsBit(CellByte(c)) } }
       IN  \A x \in drawn, y \in drawn :
               x[1] # y[1] => << x[2], x[3] >> # << y[2], y[3] >>

\* C6 witness: graphics cells of all 16 patterns are on the screen (cells
\* 128..143 of the ramp), pattern 6 as lower half, upper half.
C6_Witness ==
    /\ vdg = "ramp"
    /\ cells = 512
    /\ { Pattern(CellByte(a)) : a \in 128 .. 143 } = 0 .. 15
    /\ << surface[134][1], surface[134][2] >> = << LOWER, UPPER >>

\* The cells of the video memory whose colour pair differs from that of the
\* cell before, in row-major order; cell 0 has none before it.
ColorChanges ==
    { a \in Cells : a = 0 \/ ColorPair(CellByte(a)) # ColorPair(CellByte(a - 1)) }

\* C7: attron is called at a cell exactly when its colour pair differs from
\* the pair last applied in the frame (that of the cell drawn before it; none
\* at cell 0); so a complete frame has 1 + (adjacent cells of different pairs)
\* switches, and exactly one when all cells have the same pair.
C7_SwitchOnlyOnColorChange ==
    /\ attrons \subseteq DrawnCells
    /\ \A a \in DrawnCells :
          (a \in attrons) = (a = 0 \/ ColorPair(CellByte(a)) # surface[a - 1][3])
    /\ cells = 512 =>
          /\ attrons = ColorChanges
          /\ Cardinality(attrons) =
                1 + Cardinality({ a \in 1 .. 511 :
                                    ColorPair(CellByte(a)) # ColorPair(CellByte(a - 1)) })
          /\ (\A a \in Cells : ColorPair(CellByte(a)) = ColorPair(CellByte(0)))
                => Cardinality(attrons) = 1

\* C7 witness: a second frame of one colour was drawn with one switch after a
\* first frame; and a frame of alternating colours with 512.
C7_Witness ==
    /\ cells = 512
    /\ nexec = 2
    /\ \/ vdg = "blank" /\ attrons = {0}
       \/ vdg = "stripes" /\ Cardinality(attrons) = 512

\* The calls of a complete iteration, without and with an injected key.
IterationNoKey == << "exec", "getch", "render", "overlay", "refresh", "usleep" >>
IterationKey ==
    << "exec", "getch", "key_down", "key_up", "render", "overlay", "refresh", "usleep" >>

IsPrefix(p, q) == Len(p) <= Len(q) /\ \A i \in 1 .. Len(p) : p[i] = q[i]

\* The iteration in progress was begun by mp1000_exec(&mp1000, 0).
PausedIteration == InIteration /\ pc # "exec" /\ exec_usec = 0

\* C8: with speed 0 the loop still enters the iteration and calls
\* mp1000_exec with 0, which leaves the machine's clock (and screen) where it
\* was; the iteration then polls, injects an accepted key as press and release,
\* draws all 512 cells and flushes once, as any other iteration.
C8_PausedStillPollsAndRenders ==
    /\ [][(pc = "loop" /\ speed = 0 /\ quit_requested = 0 /\ pc' # pc) =>
             pc' = "exec"]_vars
    /\ [][(pc = "exec" /\ speed = 0 /\ pc' # pc) =>
             /\ pc' = "getch"
             /\ exec_usec' = 0
             /\ usec' = usec
             /\ vdg' = vdg
             /\ nexec' = nexec + 1
             /\ log' = << "exec" >>]_vars
    /\ [][(PausedIteration /\ pc = "getch" /\ pc' # pc) =>
             log' = << "exec", "getch" >>]_vars
    /\ [][(PausedIteration /\ pc = "key_down" /\ ch < 256 /\ pc' # pc) =>
             (pc' = "key_up" /\ keys' = {ch})]_vars
    /\ [][(PausedIteration /\ pc = "key_up" /\ pc' # pc) =>
             (pc' = "render" /\ keys' = {})]_vars
    /\ [](PausedIteration =>
             /\ IsPrefix(log, IterationNoKey) \/ IsPrefix(log, IterationKey)
             /\ pc = "usleep" =>
                   /\ cells = 512
                   /\ log[Len(log)] = "refresh"
                   /\ \A a \in Cells :
                         surface[a] = << LeftGlyph(CellByte(a)), RightGlyph(CellByte(a)),
                                         ColorPair(CellByte(a)) >>)

\* C8 witness: after one frame at the default speed, a paused iteration has
\* injected a key, drawn the frame and flushed, the clock still at 33333.
C8_Witness ==
    /\ pc = "usleep"
    /\ exec_usec = 0
    /\ usec = 33333
    /\ nexec = 2
    /\ cells = 512
    /\ log = << "exec", "getch", "key_down", "key_up", "render", "overlay", "refresh" >>

\* C9: the calls of an iteration are made one after the other in the order
\* exec, getch, (key_down, key_up), the 16 rows of 32 cells, the overlay, one
\* refresh, usleep; the loop test follows the usleep, and the next iteration
\* begins only from there.
C9_StepsInSequence ==
    /\ IsPrefix(log, IterationNoKey) \/ IsPrefix(log, IterationKey)
    /\ pc = "exec" => log = << >>
    /\ pc = "getch" => log = << "exec" >>
    /\ pc \in {"translate", "key_down"} => log = << "exec", "getch" >>
    /\ pc = "key_up" => log = << "exec", "getch", "key_down" >>
    /\ pc = "render" => (log = << "exec", "getch" >>
                         \/ log = << "exec", "getch", "key_down", "key_up" >>)
    /\ pc = "row" => (log[Len(log)] = "render" /\ cells = yy * GridCols)
    /\ pc = "refresh" => (log[Len(log)] = "overlay" /\ cells = 512)
    /\ pc = "usleep" => (log[Len(log)] = "refresh" /\ cells = 512)
    /\ (pc \in {"loop", "endwin", "return", "done"} /\ nexec > 0) =>
          (log \in {IterationNoKey, IterationKey} /\ cells = 512)
    /\ (pc \in {"loop", "endwin", "return", "done"} /\ nexec = 0) => log = << >>
    /\ Cardinality({ i \in 1 .. Len(log) : log[i] = "refresh" }) <= 1
    /\ Cardinality({ i \in 1 .. Len(log) : log[i] = "exec" }) <= 1
    /\ Cardinality({ i \in 1 .. Len(log) : log[i] = "getch" }) <= 1

\* C9 witness: the second iteration, with a key injected, is complete and
\* main() is back at the loop test.
C9_Witness ==
    pc = "loop" /\ nexec = 2 /\ log = IterationKey /\ cells = 512

\* C10: once initialised to FRAME_USEC before the loop, speed changes only
\* where the switch handles the keys 93 (right
\* bracket), 39 (apostrophe) and 47 (slash), to 0, 1900000/894750 and
\* 30000000/894750; at that point mp1000_exec of the same iteration has been
\* called, with the budget as it was; every mp1000_exec call passes the budget
\* as it is then.
C10_SpeedKeysSetBudgetForNextFrames ==
    /\ [][speed' # speed =>
             \/ pc = "translate" /\ ch \in {93, 39, 47}
             \/ speed = NoValue /\ speed' = FRAME_USEC /\ nexec = 0]_vars
    /\ [][(pc = "translate" /\ pc' # pc) =>
             /\ ch = 93 => speed' = 0
             /\ ch = 39 => speed' = NativeNum \div ClockHz
             /\ ch = 47 => speed' = TurboNum \div ClockHz
             /\ ch \notin {93, 39, 47} => speed' = speed]_vars
    /\ [][(pc = "exec" /\ pc' # pc) =>
             (exec_usec' = speed /\ usec' = usec + speed)]_vars
    /\ [](pc = "translate" => (log = << "exec", "getch" >> /\ exec_usec = speed))

\* C10 witness: the slash was polled in the first iteration, whose exec ran
\* 33333 microseconds; the exec of the second iteration ran the new budget.
C10_Witness ==
    /\ pc = "getch"
    /\ nexec = 2
    /\ speed = TurboNum \div ClockHz
    /\ exec_usec = speed
    /\ usec = FRAME_USEC + speed

\* C11: a step that changes quit_requested sets it to 1 and changes nothing
\* else (machine, speed, frames, terminal, position of main); the flag is never
\* cleared; main() acts on it only at the loop test: from inside the iteration
\* every step of main() stays in the iteration or returns to the loop test,
\* the terminal stays in curses mode there, and an iteration arrives at the
\* loop test complete (all calls made, 512 cells drawn, slept) whether or not
\* the flag was set on the way.
C11_HandlerOnlySetsFlag ==
    /\ [][quit_requested' # quit_requested =>
             /\ quit_requested' = 1
             /\ UNCHANGED << pc, handler, locals, machine, curses, log, counts >>]_vars
    /\ [][quit_requested # 0 => quit_requested' # 0]_vars
    /\ [][(InIteration /\ pc' # pc) =>
             /\ (InIteration' \/ pc' = "loop")
             /\ term' = "curses"
             /\ nendwin' = 0]_vars
    /\ [][pc' = "endwin" => (pc \in {"loop", "endwin"} /\ quit_requested # 0)]_vars
    /\ [](InIteration => (term = "curses" /\ nendwin = 0))
    /\ []((pc = "loop" /\ nexec > 0) =>
             /\ log \in {IterationNoKey, IterationKey}
             /\ cells = 512
             /\ sleep_usec = FRAME_USEC
             /\ keys = {}
             /\ term = "curses")

\* C11 witness: the interrupt arrived in the first iteration after its
\* mp1000_exec; the iteration went on to inject a key, draw, flush and sleep,
\* and main() is at the loop test with the terminal still in curses mode.
C11_Witness ==
    /\ pc = "loop"
    /\ quit_requested = 1
    /\ nexec = 1
    /\ execs_after_quit = 0
    /\ log = IterationKey
    /\ cells = 512
    /\ term = "curses"

\* The lifecycle state of the program, by the position of main(): start-up
\* (lines 114-138), the loop (lines 141-269), shutdown (lines 270-271), exited.
Phase ==
    CASE pc \in {"mp1000_init", "signal", "curses"} -> "INIT"
      [] pc = "loop" \/ InIteration -> "RUNNING"
      [] pc \in {"endwin", "return"} -> "SHUTTING_DOWN"
      [] pc = "done" -> "TERMINATED"

\* C12: the program moves INIT -> RUNNING -> SHUTTING_DOWN -> TERMINATED and
\* in no other way; it leaves RUNNING only with quit_requested set; it is
\* TERMINATED only with the terminal restored and exit code 0; and, main()
\* taking its steps, once quit_requested is set the program eventually is
\* TERMINATED with the terminal restored and exit code 0.
C12_LifecycleAndCleanExit ==
    /\ [][\/ Phase' = Phase
          \/ << Phase, Phase' >> \in { << "INIT", "RUNNING" >>,
                                       << "RUNNING", "SHUTTING_DOWN" >>,
                                       << "SHUTTING_DOWN", "TERMINATED" >> }]_vars
    /\ [][(Phase = "RUNNING" /\ Phase' # "RUNNING") => quit_requested # 0]_vars
    /\ [](Phase = "TERMINATED" => (term = "restored" /\ exit_code = 0 /\ nendwin = 1))
    /\ [](Phase # "TERMINATED" => exit_code = NoValue)
    /\ (quit_requested # 0) ~> (Phase = "TERMINATED" /\ term = "restored" /\ exit_code = 0)

\* C12 witness: after two iterations and an interrupt the program has exited
\* with code 0 and the terminal restored.
C12_Witness ==
    /\ Phase = "TERMINATED"
    /\ quit_requested = 1
    /\ nexec = 2
    /\ exit_code = 0
    /\ term = "restored"

\* The code injected for host code c in 0..255 under locale l: the switch, then
\* the case inversion.
Translated(l, c) == CaseInvert(l, KeyTable(c))

\* The host codes C13 is about: above 32, below 256, not in the fixed table.
C13_Codes == (33 .. 255) \ {127}

C14_Index == 0 .. 15

\* C14: start-up leaves a table of exactly the pairs 1..256, the pair
\* fg*16+bg+1 holding colours fg and bg of the palette; init_pair was called
\* 256 times, once with every number of 1..256, in the order of the loops;
\* distinct (fg,bg) have distinct numbers; there is no table before the build,
\* which is done before the first mp1000_exec, and table and calls never
\* change afterwards.
C14_PaletteBuiltOnce ==
    /\ []((pc = "loop" /\ nexec = 0) =>
             /\ DOMAIN pairs = 1 .. 256
             /\ Len(pair_calls) = 256
             /\ \A fg \in C14_Index, bg \in C14_Index :
                   /\ fg * 16 + bg + 1 \in 1 .. 256
                   /\ pairs[fg * 16 + bg + 1] = << colors[fg + 1], colors[bg + 1] >>
                   /\ pair_calls[fg * 16 + bg + 1] = fg * 16 + bg + 1
             /\ \A id \in 1 .. 256 :
                   Cardinality({ i \in 1 .. Len(pair_calls) : pair_calls[i] = id }) = 1
             /\ Cardinality({ fg * 16 + bg + 1 : fg \in C14_Index, bg \in C14_Index }) = 256)
    /\ [](pc \in {"mp1000_init", "signal", "curses"} =>
             (pairs = << >> /\ pair_calls = << >> /\ nexec = 0))
    /\ [][(pairs' # pairs \/ pair_calls' # pair_calls) =>
             (pc = "curses" /\ pc' = "loop" /\ pairs = << >> /\ nexec = 0)]_vars

\* C14 witness: the table is built and the loop not yet entered; pair 241 is
\* colour 15 on colour 0, pair 256 colour 15 on colour 15.
C14_Witness ==
    /\ pc = "loop"
    /\ nexec = 0
    /\ DOMAIN pairs = 1 .. 256
    /\ pairs[241] = << 16, 71 >>
    /\ pairs[256] = << 16, 16 >>
    /\ pair_calls[256] = 256

\* C15: frames is 0 when the loop is first reached and from then on equals
\* the number of mp1000_exec calls made; it changes only by + 1, in the step
\* that calls mp1000_exec, and every such step adds 1 whatever speed is and
\* whatever key follows; the overlay shows that count; and the decisions of the
\* loop are determined without it: the budget passed is speed, a key is
\* injected exactly when its code is below 256, and the loop is left exactly
\* when quit_requested is set.
C15_FrameCounterCountsExecs ==
    /\ [](frames # NoValue => (frames = nexec /\ frames >= 0))
    /\ []((pc = "loop" /\ nexec = 0) => frames = 0)
    /\ [][frames' # frames =>
             \/ pc = "exec" /\ frames' = frames + 1
             \/ pc = "curses" /\ frames = NoValue /\ frames' = 0]_vars
    /\ [][(pc = "exec" /\ pc' # pc) => (frames' = frames + 1 /\ exec_usec' = speed)]_vars
    /\ [][(pc = "row" /\ pc' = "refresh") =>
             (overlay_frames' = frames /\ overlay_frames' = nexec)]_vars
    /\ [](overlay_frames # NoValue => overlay_frames \in {frames, frames - 1})
    /\ [][(pc = "key_down" /\ pc' # pc) => (pc' = "key_up") = (ch < 256)]_vars
    /\ [][(pc = "loop" /\ pc' # pc) => (pc' = "endwin") = (quit_requested # 0)]_vars

\* C15 witness: the second iteration ran paused and its overlay shows 2.
C15_Witness ==
    /\ pc = "refresh"
    /\ speed = 0
    /\ exec_usec = 0
    /\ frames = 2
    /\ nexec = 2
    /\ overlay_frames = 2

\* The positions in log at which call c was made.
CallsOf(c) == { i \in 1 .. Len(log) : log[i] = c }

\* C16: every usleep call asks for FRAME_USEC microseconds, whatever speed is
\* and whether or not a key was handled, and leads to the loop test; an
\* iteration is back at the loop test with exactly one usleep made, as its
\* last call; and mp1000_exec is called only from the loop test, after the
\* frame of the previous mp1000_exec was drawn in full, flushed and slept on.
C16_FixedIntervalPacing ==
    /\ [][(pc = "usleep" /\ pc' # pc) =>
             /\ sleep_usec' = FRAME_USEC
             /\ pc' = "loop"
             /\ log' = Append(log, "usleep")]_vars
    /\ [][sleep_usec' # sleep_usec => pc = "usleep"]_vars
    /\ [](sleep_usec \in {NoValue, FRAME_USEC})
    /\ []((pc = "loop" /\ nexec > 0) =>
             /\ log[Len(log)] = "usleep"
             /\ Cardinality(CallsOf("usleep")) = 1
             /\ sleep_usec = FRAME_USEC)
    /\ [](InIteration => CallsOf("usleep") = {})
    /\ [](Cardinality(CallsOf("exec")) <= 1)
    /\ [][(pc' = "exec" /\ pc # "exec") =>
             /\ pc = "loop"
             /\ nexec > 0 =>
                   /\ cells = 512
                   /\ \E i \in CallsOf("exec"), j \in CallsOf("render"),
                         k \in CallsOf("refresh"), m \in CallsOf("usleep") :
                         i < j /\ j < k /\ k < m]_vars

\* C16 witness: a paused iteration in which no key was polled has slept the
\* same 33333 microseconds.
C16_Witness ==
    /\ pc = "loop"
    /\ nexec = 2
    /\ speed = 0
    /\ exec_usec = 0
    /\ log = IterationNoKey
    /\ sleep_usec = 33333

\* C17: the code tested against 256 is the one the switch and the case
\* inversion left in ch (for a host code of 0..255 that is Translated, for an
\* arrow key its table code); mp1000_key_down is called exactly when that code
\* is below 256, with that code, and mp1000_key_up follows with the same code;
\* so only codes of 0..255 are ever pressed in the machine.
C17_RangeTestOnTranslatedCode ==
    /\ [](keys \subseteq 0 .. 255)
    /\ [](pc = "key_up" => (ch \in 0 .. 255 /\ keys = {ch}))
    /\ [](pc = "key_down" =>
             /\ host_key \in 0 .. 255 => ch = Translated(locale, host_key)
             /\ host_key \in 258 .. 261 => (ch = KeyTable(host_key) /\ ch < 256)
             /\ ch >= 0)
    /\ [][(pc = "key_down" /\ pc' # pc) =>
             /\ (pc' = "key_up") = (ch < 256)
             /\ pc' = "key_up" =>
                   (keys' = {ch} /\ ch' = ch /\ log' = Append(log, "key_down"))
             /\ pc' # "key_up" => (pc' = "render" /\ keys' = keys /\ log' = log)]_vars
    /\ [][(pc = "key_up" /\ pc' # pc) =>
             (pc' = "render" /\ keys' = {} /\ log' = Append(log, "key_up"))]_vars

\* C17 witness: UP, host code 259, passed the range test as 0x0B and is
\* pressed in the machine.
C17_Witness ==
    pc = "key_up" /\ host_key = 259 /\ ch = 11 /\ keys = {11}

\* The host codes of the speed keys: ']', the apostrophe and '/'.
SpeedKeys == {93, 39, 47}

\* The budget a speed key sets.
C18_Preset(k) ==
    CASE k = 93 -> 0
      [] k = 39 -> 2
      [] k = 47 -> 33

\* C18: the step that handles a speed key sets the budget and goes on to the
\* injection with the key's code unchanged; the code passes the range test and
\* is pressed and released in the machine, in the iteration that polled it,
\* with the new budget already in speed.
C18_SpeedKeyAlsoInjected ==
    /\ [][(pc = "translate" /\ ch \in SpeedKeys /\ pc' # pc) =>
             /\ pc' = "key_down"
             /\ ch' = ch
             /\ host_key' = ch
             /\ speed' = C18_Preset(ch)
             /\ nexec' = nexec]_vars
    /\ [][(pc = "key_down" /\ host_key \in SpeedKeys /\ pc' # pc) =>
             (pc' = "key_up" /\ keys' = {host_key} /\ nexec' = nexec)]_vars
    /\ [][(pc = "key_up" /\ host_key \in SpeedKeys /\ pc' # pc) =>
             (pc' = "render" /\ keys' = {} /\ nexec' = nexec
              /\ log' = << "exec", "getch", "key_down", "key_up" >>)]_vars
    /\ []((pc \in {"key_down", "key_up"} /\ host_key \in SpeedKeys) =>
             (ch = host_key /\ speed = C18_Preset(host_key)))
    /\ []((pc = "key_up" /\ host_key \in SpeedKeys) =>
             (keys = {host_key} /\ log = << "exec", "getch", "key_down" >>))

\* C18 witness: ']' was polled in the first iteration; the budget is 0 and
\* code 93 is pressed in the machine.
C18_Witness ==
    /\ pc = "key_up"
    /\ host_key = 93
    /\ keys = {93}
    /\ speed = 0
    /\ nexec = 1
    /\ exec_usec = FRAME_USEC

\* C19: speed, once initialised, and the budget passed to mp1000_exec are one
\* of 33333, 0, 2 and 33; a speed key leaves 0, 2 or 33 in speed; speed is
\* 33333 until a speed key is handled, the mp1000_exec of that iteration
\* having run with 33333; and once speed or a passed budget is not 33333,
\* neither is 33333 again.
C19_BudgetValues ==
    /\ [](speed \in {NoValue, 33333, 0, 2, 33})
    /\ [](exec_usec \in {NoValue, 33333, 0, 2, 33})
    /\ [](InIteration \/ pc = "loop" => speed # NoValue)
    /\ [](nexec > 0 => exec_usec # NoValue)
    /\ [][(pc = "translate" /\ ch \in SpeedKeys /\ pc' # pc) =>
             (speed' = C18_Preset(ch) /\ speed' \in {0, 2, 33})]_vars
    /\ [][(speed = 33333 /\ speed' # speed) =>
             (pc = "translate" /\ ch \in SpeedKeys)]_vars
    /\ []((speed = 33333 /\ nexec > 0) => (exec_usec = 33333 /\ usec = 33333 * nexec))
    /\ []((pc = "translate" /\ ch \in SpeedKeys /\ speed = 33333) => exec_usec = 33333)
    /\ [][(speed \in {0, 2, 33}) => speed' \in {0, 2, 33}]_vars
    /\ [][(exec_usec \in {0, 2, 33}) => exec_usec' \in {0, 2, 33}]_vars

\* C19 witness: the apostrophe was polled in the first iteration, which ran
\* 33333 microseconds; the second ran 2.
C19_Witness ==
    /\ pc = "getch"
    /\ nexec = 2
    /\ speed = 2
    /\ exec_usec = 2
    /\ usec = 33335

\* The pair numbers of foreground 0..7 on background 15: 16, 32, ..., 128.
C20_GraphicsIds == { 16 * k : k \in 1 .. 8 }

\* C20: every cell on the screen was drawn under a pair of the table, a number
\* of 1..256; a graphics cell (byte b of 128 or more) under the pair of
\* foreground (b >> 4) & 7 on background 15, one of 16, 32, ..., 128, which
\* holds palette colour (b >> 4) & 7 on colour 15; and two cells holding the
\* same byte are drawn under the same pair, in every frame.
C20_AppliedPairsAreRegistered ==
    /\ \A a \in DrawnCells :
          LET b == CellByte(a)
              id == surface[a][3]
              fg == (b \div 16) % 8
          IN  /\ id \in DOMAIN pairs
              /\ id \in 1 .. 256
              /\ b >= 128 =>
                    /\ id = fg * 16 + 15 + 1
                    /\ id \in C20_GraphicsIds
                    /\ pairs[id] = << colors[fg + 1], colors[15 + 1] >>
              /\ (a >= 256 /\ CellByte(a - 256) = b) => surface[a - 256][3] = id
              /\ (a >= 1 /\ CellByte(a - 1) = b) => surface[a - 1][3] = id
    /\ (pc \in {"row", "refresh", "usleep"} /\ cells > 0) => attr_pair \in DOMAIN pairs

\* C20 witness: in the second frame all 256 bytes are on the screen, the
\* graphics cells under all eight pairs 16, 32, ..., 128 and no other.
C20_Witness ==
    /\ vdg = "ramp"
    /\ nexec = 2
    /\ cells = 512
    /\ { CellByte(a) : a \in 0 .. 255 } = 0 .. 255
    /\ { surface[a][3] : a \in 128 .. 255 } = C20_GraphicsIds
    /\ surface[255][3] = 128

====
